---- MODULE Spec2Model ----
(***************************************************************************)
(* godot-rust binding generator: the type mapper (Ty) and the schema model *)
(* (Api) of bindings_generator/src/api.rs, and of the binding layer the    *)
(* wrapped method call and the library entry points of                     *)
(* gdnative-core/src/macros.rs and NativeRef of core/src/class.rs.         *)
(*                                                                         *)
(* Strings are TLA+ strings; TLC evaluates Len, SubSeq and \o on them, so  *)
(* a type name is split, cased and compared character by character as the *)
(* Rust code does.                                                         *)
(***************************************************************************)
EXTENDS Integers, Sequences, FiniteSets, TLC

VARIABLES
    src,            \* Ty: the raw schema type string handed to Ty::from_src
    ty,             \* Ty: the outcome of Ty::from_src(src)
    shapes,         \* Ty: the representations emitted for ty so far
    ret,            \* Ty: the value the host wrote for a raw call
    stored,         \* Ty: the outcome of the emitted post-call conversion
    pc,             \* Ty: position of the type-mapper run
    raw,            \* Api: the class list as deserialized from the manifest
    classes,        \* Api: Api::classes
    api_underscore, \* Api: Api::api_underscore
    apc,            \* Api: position of the Api run
    query,          \* Api: the name last handed to find_class
    found,          \* Api: the result of that find_class
    call,           \* Api: the last class_inherits or base_class call
    result,         \* Api: what that call came to
    wrap,           \* binding layer: one call through a wrapped method
    lib,            \* binding layer: GODOT_API and the entry points called so far
    obj             \* binding layer: one host object and the NativeRefs to it

vars == <<src, ty, shapes, ret, stored, pc, raw, classes, api_underscore, apc, query, found,
          call, result, wrap, lib, obj>>
tyVars == <<src, ty, shapes, ret, stored, pc>>
apiVars == <<raw, classes, api_underscore, apc, query, found, call, result>>
coreVars == <<wrap, lib, obj>>

(***************************************************************************)
(* Characters and strings                                                  *)
(***************************************************************************)
UpperChars == "ABCDEFGHIJKLMNOPQRSTUVWXYZ"
LowerChars == "abcdefghijklmnopqrstuvwxyz"
DigitChars == "0123456789"

Ch(s, i) == SubSeq(s, i, i)

InChars(c, set) == \E i \in 1..Len(set) : Ch(set, i) = c

is_uppercase(c) == InChars(c, UpperChars)
is_lowercase(c) == InChars(c, LowerChars)
is_numeric(c) == InChars(c, DigitChars)

to_lowercase(c) ==
    IF is_uppercase(c)
    THEN Ch(LowerChars, CHOOSE i \in 1..Len(UpperChars) : Ch(UpperChars, i) = c)
    ELSE c

to_uppercase(c) ==
    IF is_lowercase(c)
    THEN Ch(UpperChars, CHOOSE i \in 1..Len(LowerChars) : Ch(LowerChars, i) = c)
    ELSE c

RECURSIVE MapChars(_, _)
\* s with every character lowered (up = FALSE) or raised (up = TRUE)
MapChars(s, up) ==
    IF Len(s) = 0 THEN ""
    ELSE (IF up THEN to_uppercase(Ch(s, 1)) ELSE to_lowercase(Ch(s, 1)))
         \o MapChars(SubSeq(s, 2, Len(s)), up)

starts_with(s, p) == Len(s) >= Len(p) /\ SubSeq(s, 1, Len(p)) = p

\* index of the first occurrence of pat in s, 0 when there is none
find(s, pat) ==
    LET hits == {i \in 1..(Len(s) - Len(pat) + 1) : SubSeq(s, i, i + Len(pat) - 1) = pat}
    IN IF hits = {} THEN 0 ELSE CHOOSE i \in hits : \A j \in hits : i <= j

RECURSIVE split(_, _)
\* str::split(pat) collected: the pieces between the occurrences of pat
split(s, pat) ==
    LET i == find(s, pat)
    IN IF i = 0 THEN <<s>>
       ELSE <<SubSeq(s, 1, i - 1)>> \o split(SubSeq(s, i + Len(pat), Len(s)), pat)

(***************************************************************************)
(* heck 0.3: the word splitter behind to_snake_case and to_camel_case.     *)
(* Names handed to it here are made of letters, digits and '_', which      *)
(* unicode_words keeps as one word (or none, when there is no letter or    *)
(* digit); any other character is kept inside the word as cased neither    *)
(* way, like a digit.                                                      *)
(***************************************************************************)
RECURSIVE transform(_, _, _, _, _)
transform(word, i, init, mode, out) ==
    IF i > Len(word) THEN out
    ELSE LET c == Ch(word, i) IN
         IF c = "_"
         THEN transform(word, i + 1, IF init = i THEN init + 1 ELSE init, mode, out)
         ELSE IF i = Len(word)
         THEN Append(out, SubSeq(word, init, Len(word)))
         ELSE LET next == Ch(word, i + 1)
                  next_mode == IF is_lowercase(c) THEN "Lowercase"
                               ELSE IF is_uppercase(c) THEN "Uppercase"
                               ELSE mode
              IN IF next = "_" \/ (next_mode = "Lowercase" /\ is_uppercase(next))
                 THEN transform(word, i + 1, i + 1, "Boundary",
                                Append(out, SubSeq(word, init, i)))
                 ELSE IF mode = "Uppercase" /\ is_uppercase(c) /\ is_lowercase(next)
                 THEN transform(word, i + 1, i, "Boundary",
                                Append(out, SubSeq(word, init, i - 1)))
                 ELSE transform(word, i + 1, init, next_mode, out)

RECURSIVE join(_, _)
join(words, sep) ==
    IF Len(words) = 0 THEN ""
    ELSE IF Len(words) = 1 THEN words[1]
    ELSE words[1] \o sep \o join(Tail(words), sep)

capitalize(w) ==
    IF Len(w) = 0 THEN ""
    ELSE to_uppercase(Ch(w, 1)) \o MapChars(SubSeq(w, 2, Len(w)), FALSE)

to_snake_case(s) ==
    LET words == transform(s, 1, 1, "Boundary", <<>>)
    IN join([k \in 1..Len(words) |-> MapChars(words[k], FALSE)], "_")

to_camel_case(s) ==
    LET words == transform(s, 1, 1, "Boundary", <<>>)
    IN join([k \in 1..Len(words) |-> capitalize(words[k])], "")

(***************************************************************************)
(* format_ident!: proc_macro2's Ident::new panics unless the text is an    *)
(* identifier.                                                             *)
(***************************************************************************)
is_ident_start(c) == c = "_" \/ is_uppercase(c) \/ is_lowercase(c)
is_ident_continue(c) == is_ident_start(c) \/ is_numeric(c)

is_ident(s) ==
    /\ Len(s) > 0
    /\ is_ident_start(Ch(s, 1))
    /\ \A i \in 2..Len(s) : is_ident_continue(Ch(s, i))

(***************************************************************************)
(* Ty                                                                      *)
(***************************************************************************)
NoPath == <<>>
Tag(t) == [tag |-> t, path |-> NoPath]
TyEnum(p) == [tag |-> "Enum", path |-> p]
TyObject(p) == [tag |-> "Object", path |-> p]
\* from_src did not return: an unwrap() on None or a format_ident! on a
\* text that is no identifier unwound
Panic == [tag |-> "panic", path |-> NoPath]
NoTy == [tag |-> "none", path |-> NoPath]

\* the exact-match arms of Ty::from_src for the built-in types, in the order
\* of the source
BuiltinTypes ==
    <<  <<"void", "Void">>, <<"String", "String">>, <<"float", "F64">>,
        <<"int", "I64">>, <<"bool", "Bool">>, <<"Vector2", "Vector2">>,
        <<"Vector3", "Vector3">>, <<"Quat", "Quat">>, <<"Transform", "Transform">>,
        <<"Transform2D", "Transform2D">>, <<"Rect2", "Rect2">>, <<"Plane", "Plane">>,
        <<"Basis", "Basis">>, <<"Color", "Color">>, <<"NodePath", "NodePath">>,
        <<"Variant", "Variant">>, <<"AABB", "Aabb">>, <<"RID", "Rid">>,
        <<"Array", "VariantArray">>, <<"Dictionary", "Dictionary">>,
        <<"PoolByteArray", "ByteArray">>, <<"PoolStringArray", "StringArray">>,
        <<"PoolVector2Array", "Vector2Array">>, <<"PoolVector3Array", "Vector3Array">>,
        <<"PoolColorArray", "ColorArray">>, <<"PoolIntArray", "Int32Array">>,
        <<"PoolRealArray", "Float32Array">> >>

\* the enum strings matched ahead of the generic enum rule
SpecialEnums ==
    <<  <<"enum.Error", "Result">>,
        <<"enum.Variant::Type", "VariantType">>,
        <<"enum.Variant::Operator", "VariantOperator">>,
        <<"enum.Vector3::Axis", "Vector3Axis">> >>

\* mutant: the four special enum arms are missing
KnownTypes_without_special_enums == BuiltinTypes

\* every exact-match arm of Ty::from_src
KnownTypes == BuiltinTypes \o SpecialEnums

KnownStrings == {KnownTypes[i][1] : i \in 1..Len(KnownTypes)}

\* mutant: the module segment is the class name as spelled, not snake-cased
fallback_arm_module_not_snake_cased(t) ==
    IF ~is_ident(t) THEN Panic
    ELSE TyObject(<<"crate", "generated", t, t>>)

\* the fallback arm: any other string is taken for a class name
fallback_arm(t) ==
    LET module == to_snake_case(t)
    IN IF ~is_ident(module) \/ ~is_ident(t) THEN Panic
       ELSE TyObject(<<"crate", "generated", module, t>>)

RECURSIVE from_src(_)
\* mutant: the two arms of the known-type match are swapped
enum_arm_arms_swapped(t) ==
    LET parts == split(SubSeq(t, 6, Len(t)), "::")
        class_name == parts[1]
    IN IF Len(parts) < 2 THEN Panic
       ELSE LET name == to_camel_case(parts[2])
                module == to_snake_case(class_name)
            IN IF ~is_ident(name) \/ ~is_ident(module) THEN Panic
               ELSE LET owner == from_src(class_name)
                    IN IF owner = Panic THEN Panic
                       ELSE IF owner.tag \in {"Enum", "Object"}
                       THEN TyEnum(<<module, name>>)
                       ELSE TyEnum(<<"crate", "generated", module, name>>)

\* the generic rule for a string that starts with "enum."
enum_arm(t) ==
    LET parts == split(SubSeq(t, 6, Len(t)), "::")
        class_name == parts[1]
    IN IF Len(parts) < 2 THEN Panic        \* split.next().unwrap() on None
       ELSE LET name == to_camel_case(parts[2])
                module == to_snake_case(class_name)
            IN IF ~is_ident(name) \/ ~is_ident(module) THEN Panic
               ELSE LET owner == from_src(class_name)
                    IN IF owner = Panic THEN Panic
                       ELSE IF owner.tag \in {"Enum", "Object"}
                       THEN TyEnum(<<"crate", "generated", module, name>>)
                       ELSE TyEnum(<<module, name>>)

from_src(s) ==
    IF s \in KnownStrings
    THEN Tag((CHOOSE e \in {KnownTypes[i] : i \in 1..Len(KnownTypes)} : e[1] = s)[2])
    ELSE IF starts_with(s, "enum.") THEN enum_arm(s)
    ELSE fallback_arm(s)

(***************************************************************************)
(* The representations of a Ty. A shape is the emitted token text; "#path" *)
(* in the text stands for the interpolated path of an Enum or Object tag.  *)
(***************************************************************************)
Shape(text) == [text |-> text, path |-> NoPath]
PathShape(text, p) == [text |-> text, path |-> p]
NoShape == Shape("none")

\* the tags whose to_rust text is the tag's own name
SameNameTags ==
    {"Vector2", "Vector3", "Quat", "Transform", "Transform2D", "Rect2", "Plane",
     "Basis", "Color", "NodePath", "Variant", "Aabb", "Rid", "VariantArray",
     "Dictionary", "ByteArray", "StringArray", "Vector2Array", "Vector3Array",
     "ColorArray", "Int32Array", "Float32Array", "VariantType", "VariantOperator"}

to_rust(t) ==
    CASE t.tag = "Void" -> Shape("()")
      [] t.tag = "String" -> Shape("GodotString")
      [] t.tag = "F64" -> Shape("f64")
      [] t.tag = "I64" -> Shape("i64")
      [] t.tag = "Bool" -> Shape("bool")
      [] t.tag = "Vector3Axis" -> Shape("vector3::Axis")
      [] t.tag = "Result" -> Shape("GodotResult")
      [] t.tag \in SameNameTags -> Shape(t.tag)
      [] t.tag = "Enum" -> PathShape("#path", t.path)
      [] t.tag = "Object" -> PathShape("Option<Ref<#path, thread_access::Shared>>", t.path)

\* mutant: the string arm is missing
to_rust_arg_without_string_arm(t) ==
    CASE t.tag = "Variant" -> Shape("impl OwnedToVariant")
      [] t.tag = "NodePath" -> Shape("impl Into<NodePath>")
      [] t.tag = "Object" -> PathShape("impl AsArg<#path>", t.path)
      [] OTHER -> to_rust(t)

to_rust_arg(t) ==
    CASE t.tag = "Variant" -> Shape("impl OwnedToVariant")
      [] t.tag = "NodePath" -> Shape("impl Into<NodePath>")
      [] t.tag = "String" -> Shape("impl Into<GodotString>")
      [] t.tag = "Object" -> PathShape("impl AsArg<#path>", t.path)
      [] OTHER -> to_rust(t)

to_icall_arg(t) ==
    CASE t.tag = "Object" -> Shape("*mut sys::godot_object")
      [] OTHER -> to_rust(t)

\* the tags whose raw-call return is the host struct sys::godot_<name>
SysStruct(tag) ==
    CASE tag = "String" -> "sys::godot_string"
      [] tag = "Bool" -> "sys::godot_bool"
      [] tag = "Vector2" -> "sys::godot_vector2"
      [] tag = "Vector3" -> "sys::godot_vector3"
      [] tag = "Quat" -> "sys::godot_quat"
      [] tag = "Transform" -> "sys::godot_transform"
      [] tag = "Transform2D" -> "sys::godot_transform2d"
      [] tag = "Rect2" -> "sys::godot_rect2"
      [] tag = "Plane" -> "sys::godot_plane"
      [] tag = "Basis" -> "sys::godot_basis"
      [] tag = "Color" -> "sys::godot_color"
      [] tag = "NodePath" -> "sys::godot_node_path"
      [] tag = "Variant" -> "sys::godot_variant"
      [] tag = "Aabb" -> "sys::godot_aabb"
      [] tag = "Rid" -> "sys::godot_rid"
      [] tag = "VariantArray" -> "sys::godot_array"
      [] tag = "Dictionary" -> "sys::godot_dictionary"
      [] tag = "ByteArray" -> "sys::godot_pool_byte_array"
      [] tag = "StringArray" -> "sys::godot_pool_string_array"
      [] tag = "Vector2Array" -> "sys::godot_pool_vector2_array"
      [] tag = "Vector3Array" -> "sys::godot_pool_vector3_array"
      [] tag = "ColorArray" -> "sys::godot_pool_color_array"
      [] tag = "Int32Array" -> "sys::godot_pool_int_array"
      [] tag = "Float32Array" -> "sys::godot_pool_real_array"

SysStructTags ==
    {"String", "Bool", "Vector2", "Vector3", "Quat", "Transform", "Transform2D",
     "Rect2", "Plane", "Basis", "Color", "NodePath", "Variant", "Aabb", "Rid",
     "VariantArray", "Dictionary", "ByteArray", "StringArray", "Vector2Array",
     "Vector3Array", "ColorArray", "Int32Array", "Float32Array"}

to_icall_return(t) ==
    CASE t.tag = "Void" -> Shape("()")
      [] t.tag = "F64" -> Shape("f64")
      [] t.tag = "I64" -> Shape("i64")
      [] t.tag \in SysStructTags -> Shape(SysStruct(t.tag))
      [] t.tag \in {"Vector3Axis", "Result", "VariantType", "VariantOperator", "Enum"}
            -> Shape("i64")
      [] t.tag = "Object" -> Shape("*mut sys::godot_object")

\* Option<syn::Type>: None is the shape "None"
to_sys(t) ==
    CASE t.tag \in {"Void", "Vector3Axis", "Enum"} -> Shape("None")
      [] t.tag = "F64" -> Shape("sys::godot_real")
      [] t.tag = "I64" -> Shape("sys::godot_int")
      [] t.tag \in SysStructTags -> Shape(SysStruct(t.tag))
      [] t.tag = "Result" -> Shape("sys::godot_error")
      [] t.tag = "VariantType" -> Shape("sys::variant_type")
      [] t.tag = "VariantOperator" -> Shape("sys::godot_variant_operator")
      [] t.tag = "Object" -> Shape("sys::godot_object")

TransmuteTags ==
    {"Vector2", "Vector3", "Transform", "Transform2D", "Quat", "Aabb", "Rect2",
     "Basis", "Plane", "Color"}

FromSysTags ==
    {"String", "NodePath", "VariantArray", "Dictionary", "ByteArray", "StringArray",
     "Vector2Array", "Vector3Array", "ColorArray", "Int32Array", "Float32Array",
     "Variant"}

\* mutant: the variant operator is reinterpreted unchecked, as the axis is
to_return_post_operator_unchecked(t) ==
    CASE t.tag = "Void" -> Shape("")
      [] t.tag \in {"F64", "I64", "Bool"} -> Shape("ret as _")
      [] t.tag = "Enum" -> PathShape("#path(ret)", t.path)
      [] t.tag \in TransmuteTags -> Shape("mem::transmute(ret)")
      [] t.tag \in {"Vector3Axis", "VariantOperator"} -> Shape("mem::transmute(ret as u32)")
      [] t.tag = "Rid" -> Shape("Rid::from_sys(ret)")
      [] t.tag \in FromSysTags -> Shape(to_rust(t).text \o "::from_sys(ret)")
      [] t.tag = "Object" ->
            PathShape("ptr::NonNull::new(ret).map(|sys| <Ref<#path, thread_access::Shared>>::move_from_sys(sys))",
                      t.path)
      [] t.tag = "Result" -> Shape("GodotError::result_from_sys(ret as _)")
      [] t.tag = "VariantType" -> Shape("VariantType::from_sys(ret as _)")

to_return_post(t) ==
    CASE t.tag = "Void" -> Shape("")
      [] t.tag \in {"F64", "I64", "Bool"} -> Shape("ret as _")
      [] t.tag = "Enum" -> PathShape("#path(ret)", t.path)
      [] t.tag \in TransmuteTags -> Shape("mem::transmute(ret)")
      [] t.tag = "Vector3Axis" -> Shape("mem::transmute(ret as u32)")
      [] t.tag = "Rid" -> Shape("Rid::from_sys(ret)")
      [] t.tag \in FromSysTags -> Shape(to_rust(t).text \o "::from_sys(ret)")
      [] t.tag = "Object" ->
            PathShape("ptr::NonNull::new(ret).map(|sys| <Ref<#path, thread_access::Shared>>::move_from_sys(sys))",
                      t.path)
      [] t.tag = "Result" -> Shape("GodotError::result_from_sys(ret as _)")
      [] t.tag = "VariantType" -> Shape("VariantType::from_sys(ret as _)")
      [] t.tag = "VariantOperator" ->
            Shape("VariantOperator::try_from_sys(ret as _).expect(\"enum variant should be valid\")")

(***************************************************************************)
(* Values at the raw-call boundary. A value is [shape, v]: v is a number   *)
(* for a scalar or a discriminant, the sequence of 32-bit float words in   *)
(* memory order for a plain-old-data struct, the host handle for an opaque *)
(* type, and <<>> or <<pointer>> for an absent or present object.          *)
(***************************************************************************)
MaxWord == 3            \* float words take the values 0..MaxWord
MaxHandle == 2          \* host handles and object pointers are 1..MaxHandle
MaxDiscriminant == 2    \* the discriminants a closed host enum knows are 0..MaxDiscriminant
MaxInt == 1             \* host integers and floats are -1..MaxInt

Value(shape, v) == [kind |-> "value", shape |-> shape, v |-> v]
Panicked == [kind |-> "panic", shape |-> NoShape, v |-> <<>>]
IllTyped == [kind |-> "ill_typed", shape |-> NoShape, v |-> <<>>]
NoValue == [kind |-> "none", shape |-> NoShape, v |-> <<>>]

\* the fields of a plain-old-data record, in memory order
Fields(text) ==
    CASE text \in {"Vector3", "sys::godot_vector3"} -> <<"x", "y", "z">>
      [] text \in {"Color", "sys::godot_color"} -> <<"r", "g", "b", "a">>
      [] text \in {"Vector2", "sys::godot_vector2"} -> <<"x", "y">>
      [] text \in {"Quat", "sys::godot_quat", "Rect2", "sys::godot_rect2",
                   "Plane", "sys::godot_plane"} -> <<"f1", "f2", "f3", "f4">>
      [] text \in {"Transform2D", "sys::godot_transform2d", "Aabb", "sys::godot_aabb"}
            -> <<"f1", "f2", "f3", "f4", "f5", "f6">>
      [] text \in {"Basis", "sys::godot_basis"}
            -> <<"f1", "f2", "f3", "f4", "f5", "f6", "f7", "f8", "f9">>
      [] text \in {"Transform", "sys::godot_transform"}
            -> <<"f1", "f2", "f3", "f4", "f5", "f6", "f7", "f8", "f9", "f10", "f11", "f12">>
      [] OTHER -> <<>>

\* size_of in bytes of the shapes mem::transmute is emitted for
size_of(text) ==
    CASE text = "i64" -> 8
      [] text \in {"u32", "vector3::Axis", "VariantOperator"} -> 4
      [] OTHER -> 4 * Len(Fields(text))

\* the values the host writes for a raw call whose return type is the tag t
HostValues(t) ==
    LET shape == to_icall_return(t)
        n == Len(Fields(shape.text))
    IN CASE t.tag = "Void" -> {Value(shape, <<>>)}
         [] t.tag \in {"F64", "I64", "Enum"} -> {Value(shape, k) : k \in -1..MaxInt}
         [] t.tag = "Bool" -> {Value(shape, b) : b \in {0, 1}}
         [] t.tag \in TransmuteTags ->
                {Value(shape, [k \in 1..n |-> (k + d) % (MaxWord + 1)]) : d \in 0..MaxWord}
         [] t.tag \in FromSysTags \cup {"Rid"} -> {Value(shape, h) : h \in 1..MaxHandle}
         [] t.tag = "Object" -> {Value(shape, h) : h \in 0..MaxHandle}
         [] t.tag \in {"Vector3Axis", "VariantType"} ->
                {Value(shape, k) : k \in 0..MaxDiscriminant}
         [] t.tag \in {"Result", "VariantOperator"} ->
                {Value(shape, k) : k \in -1..(MaxDiscriminant + 1)}

\* `ret as u32`, and `ret as _` into a 32-bit C enum: a value of 0..2^31-1 is
\* kept and a negative one wraps upwards. (TLC's integers end at 2^31-1, so
\* the wrap adds 2^31 here where the cast adds 2^32: either way the result
\* lies beyond every discriminant the binding knows.)
cast_u32(n) == IF n < 0 THEN (n + 2147483647) + 1 ELSE n

\* what a host value means, in the form a stored value keeps it
Logical(value) ==
    IF value.shape.text = "*mut sys::godot_object"
    THEN (IF value.v = 0 THEN <<>> ELSE <<value.v>>)
    ELSE value.v

\* every value of the stored shape: the outcomes of undefined behaviour
AnyOutcome(target) ==
    {Panicked} \cup {Value(target, k) : k \in 0..MaxDiscriminant}

\* GodotError::result_from_sys: the validated decode of an error code
result_from_sys(err) ==
    IF err \in 0..MaxDiscriminant THEN {Value(Shape("GodotResult"), err)} ELSE {Panicked}

\* VariantOperator::try_from_sys: Some(operator), or None ("none") for a
\* discriminant that names no operator
try_from_sys(op) ==
    IF op \in 0..MaxDiscriminant THEN Value(Shape("VariantOperator"), op) ELSE NoValue

\* Option::expect
expect(option) == IF option = NoValue THEN {Panicked} ELSE {option}

\* VariantType::from_sys: the variant kind of a discriminant the host defines
VariantType_from_sys(v) ==
    IF v \in 0..MaxDiscriminant THEN {Value(Shape("VariantType"), v)}
    ELSE AnyOutcome(Shape("VariantType"))

\* the outcomes of the emitted conversion `post` on the raw value r, in a
\* function whose return type is `target`
Eval(post, r, target) ==
    CASE post.text = "" -> {Value(target, <<>>)}
      [] post.text = "ret as _" ->
            IF r.shape.text \in {"f64", "i64", "sys::godot_bool"}
                    /\ target.text \in {"f64", "i64", "bool"}
            THEN {Value(target, r.v)} ELSE {IllTyped}
      [] post.text = "#path(ret)" ->
            IF r.shape.text = "i64"
            THEN {Value(PathShape("#path", post.path), r.v)} ELSE {IllTyped}
      [] post.text = "mem::transmute(ret)" ->
            IF size_of(r.shape.text) = size_of(target.text) /\ size_of(target.text) > 0
            THEN {Value(target, r.v)} ELSE {IllTyped}
      [] post.text = "mem::transmute(ret as u32)" ->
            IF r.shape.text # "i64" \/ size_of(target.text) # size_of("u32")
            THEN {IllTyped}
            ELSE IF cast_u32(r.v) \in 0..MaxDiscriminant
            THEN {Value(target, cast_u32(r.v))}
            ELSE AnyOutcome(target)
      [] post.text = "ptr::NonNull::new(ret).map(|sys| <Ref<#path, thread_access::Shared>>::move_from_sys(sys))" ->
            IF r.shape.text # "*mut sys::godot_object" THEN {IllTyped}
            ELSE {Value(PathShape("Option<Ref<#path, thread_access::Shared>>", post.path),
                        IF r.v = 0 THEN <<>> ELSE <<r.v>>)}
      [] post.text = "GodotError::result_from_sys(ret as _)" ->
            IF r.shape.text # "i64" THEN {IllTyped} ELSE result_from_sys(cast_u32(r.v))
      [] post.text = "VariantType::from_sys(ret as _)" ->
            IF r.shape.text # "i64" THEN {IllTyped} ELSE VariantType_from_sys(cast_u32(r.v))
      [] post.text = "VariantOperator::try_from_sys(ret as _).expect(\"enum variant should be valid\")" ->
            IF r.shape.text # "i64" THEN {IllTyped} ELSE expect(try_from_sys(cast_u32(r.v)))
      [] OTHER ->
            \* <Type>::from_sys(ret): the wrapper around the host struct
            LET wrapped == {g \in FromSysTags \cup {"Rid"} :
                                post.text = to_rust(Tag(g)).text \o "::from_sys(ret)"}
            IN IF wrapped = {} THEN {IllTyped}
               ELSE LET g == CHOOSE g \in wrapped : TRUE
                    IN IF r.shape.text = SysStruct(g)
                       THEN {Value(to_rust(Tag(g)), r.v)} ELSE {IllTyped}

(***************************************************************************)
(* The type strings of a manifest                                          *)
(***************************************************************************)
\* class names as the manifest spells them
ClassNames == {"Object", "Node2D", "ARVRAnchor", "_OS"}
\* identifiers that name no class of the manifest
UnknownNames == {"UnknownThing"}
EnumNames == {"SomeEnum", "Type", "Axis", "ARVRMode"}
\* what stands before "::" in an enum reference: a class or a built-in type
Owners == ClassNames \cup UnknownNames \cup {"Vector3", "Variant", "int"}

\* enum references as a manifest spells them, and references that lack the
\* "::" or carry a second one
EnumStrings ==
    {"enum." \o o \o "::" \o n : o \in Owners, n \in EnumNames}
        \cup {"enum." \o o : o \in Owners}
        \cup {"enum.Object::SomeEnum::Extra"}

TypeStrings == KnownStrings \cup EnumStrings \cup ClassNames \cup UnknownNames

(***************************************************************************)
(* The type mapper at work: one type string is classified, its             *)
(* representations are emitted, and the emitted conversion runs on a value *)
(* the host returns.                                                       *)
(***************************************************************************)
Contexts == {"rust", "rust_arg", "icall_arg", "icall_return", "sys", "return_post"}
NoShapes == [c \in Contexts |-> NoShape]

\* the binding layer at rest
NoWrap == [pc |-> "idle"]
NoLib == [pc |-> "idle"]
NoObj == [pc |-> "idle"]

CoreIdle ==
    /\ wrap = NoWrap
    /\ lib = NoLib
    /\ obj = NoObj

\* a call of a method that resolves base classes, and what a call comes to
Call(op, self, name) == [op |-> op, self |-> self, name |-> name]
Result(kind, class) == [kind |-> kind, class |-> class]
NoCall == Call("", 0, "")
NoResult == Result("idle", 0)

ApiIdle ==
    /\ raw = <<>>
    /\ classes = <<>>
    /\ api_underscore = {}
    /\ apc = "idle"
    /\ query = ""
    /\ found = 0
    /\ call = NoCall
    /\ result = NoResult

TyInit ==
    /\ src \in TypeStrings
    /\ ty = NoTy
    /\ shapes = NoShapes
    /\ ret = NoValue
    /\ stored = NoValue
    /\ pc = "start"
    /\ ApiIdle
    /\ CoreIdle

FromSrc ==
    /\ pc = "start"
    /\ ty' = from_src(src)
    /\ pc' = "classified"
    /\ UNCHANGED <<src, shapes, ret, stored>>
    /\ UNCHANGED <<apiVars, coreVars>>

Emit(c, shape) ==
    /\ pc = "classified"
    /\ ty # Panic
    /\ shapes[c] = NoShape
    /\ shapes' = [shapes EXCEPT ![c] = shape]
    /\ UNCHANGED <<src, ty, ret, stored, pc>>
    /\ UNCHANGED <<apiVars, coreVars>>

ToRust == Emit("rust", to_rust(ty))
ToRustArg == Emit("rust_arg", to_rust_arg(ty))
ToIcallArg == Emit("icall_arg", to_icall_arg(ty))
ToIcallReturn == Emit("icall_return", to_icall_return(ty))
ToSys == Emit("sys", to_sys(ty))
ToReturnPost == Emit("return_post", to_return_post(ty))

\* the generated method calls into the host, which writes a value of its
\* own type for the method's return type
HostReturn ==
    /\ pc = "classified"
    /\ \A c \in Contexts : shapes[c] # NoShape
    /\ ret' \in {r \in HostValues(ty) : r.shape = shapes["icall_return"]}
    /\ pc' = "called"
    /\ UNCHANGED <<src, ty, shapes, stored>>
    /\ UNCHANGED <<apiVars, coreVars>>

\* the generated method runs the emitted post-call conversion
PostConvert ==
    /\ pc = "called"
    /\ stored' \in Eval(shapes["return_post"], ret, shapes["rust"])
    /\ pc' = "converted"
    /\ UNCHANGED <<src, ty, shapes, ret>>
    /\ UNCHANGED <<apiVars, coreVars>>

TyNext ==
    \/ FromSrc
    \/ ToRust
    \/ ToRustArg
    \/ ToIcallArg
    \/ ToIcallReturn
    \/ ToSys
    \/ ToReturnPost
    \/ HostReturn
    \/ PostConvert

SpecTy == TyInit /\ [][TyNext]_vars

(***************************************************************************)
(* Api: the class list of the manifest and its normalization               *)
(***************************************************************************)
GodotArgument(name, type) == [name |-> name, ty |-> type]
GodotMethod(name, return_type, arguments) ==
    [name |-> name, return_type |-> return_type, arguments |-> arguments]
Enum(name, values) == [name |-> name, values |-> values]
GodotClass(name, base_class, singleton, methods, enums) ==
    [name |-> name, base_class |-> base_class, singleton |-> singleton,
     methods |-> methods, enums |-> enums]

\* Api::find_class: the first class of that name, as its position in
\* Api::classes; 0 is None
find_class(cls, name) ==
    LET hits == {i \in 1..Len(cls) : cls[i].name = name}
    IN IF hits = {} THEN 0 ELSE CHOOSE i \in hits : \A j \in hits : i <= j

\* mutant: only the direct base class is compared
class_inherits_direct_only(cls, i, base_class_name, depth) ==
    IF cls[i].base_class = base_class_name THEN "true" ELSE "false"

\* mutant: a class counts as its own base
class_inherits_reflexive(cls, i, base_class_name, depth) ==
    IF cls[i].name = base_class_name \/ cls[i].base_class = base_class_name THEN "true"
    ELSE "false"

\* mutant: the recursion is entered with the class itself, not its parent
class_inherits_recurses_on_itself(cls, i, base_class_name, depth) ==
    IF cls[i].base_class = base_class_name THEN "true"
    ELSE IF find_class(cls, cls[i].base_class) = 0 THEN "false"
    ELSE "overflow"

RECURSIVE class_inherits(_, _, _, _)
\* Api::class_inherits for the class at position i. depth counts the frames
\* of the recursion: with more frames than classes the base-class chain has
\* come back to a class it visited, and the recursion never returns
\* ("overflow").
class_inherits(cls, i, base_class_name, depth) ==
    IF cls[i].base_class = base_class_name THEN "true"
    ELSE LET parent == find_class(cls, cls[i].base_class)
         IN IF parent = 0 THEN "false"
            ELSE IF depth > Len(cls) THEN "overflow"
            ELSE class_inherits(cls, parent, base_class_name, depth + 1)

RECURSIVE links_followed(_, _, _)
\* the base links a class_inherits call that returns has followed: the
\* recursive calls `self.class_inherits(parent, base_class_name)` it made
links_followed(cls, i, base_class_name) ==
    IF cls[i].base_class = base_class_name THEN 0
    ELSE LET parent == find_class(cls, cls[i].base_class)
         IN IF parent = 0 THEN 0
            ELSE 1 + links_followed(cls, parent, base_class_name)

\* GodotClass::base_class_name: "" stands for None
base_class_name(class) == class.base_class

\* the singletons is_singleton_thread_safe names
ThreadUnsafeSingletons == {"VisualServer", "PhysicsServer", "Physics3DServer", "Physics2DServer"}

\* mutant: the singleton flag is not asserted
is_singleton_thread_safe_without_assert(class) ==
    IF class.name \in ThreadUnsafeSingletons THEN "false" ELSE "true"

\* GodotClass::is_singleton_thread_safe: "panic" is the failed assert!
is_singleton_thread_safe(class) ==
    IF ~class.singleton THEN "panic"
    ELSE IF class.name \in ThreadUnsafeSingletons THEN "false"
    ELSE "true"

\* mutant: a base class that is not in the Api is None
base_class_miss_is_none(cls, i) ==
    IF find_class(cls, cls[i].base_class) = 0
    THEN [kind |-> "none", class |-> 0]
    ELSE [kind |-> "some", class |-> find_class(cls, cls[i].base_class)]

\* GodotClass::base_class for the class at position i: None, Some(position),
\* or the panic of expect("base class should exist")
base_class(cls, i) ==
    IF base_class_name(cls[i]) = "" THEN [kind |-> "none", class |-> 0]
    ELSE LET parent == find_class(cls, base_class_name(cls[i]))
         IN IF parent = 0 THEN [kind |-> "panic", class |-> 0]
            ELSE [kind |-> "some", class |-> parent]

\* `if s.starts_with('_') { s = s[1..].to_string() }`
strip_underscore(s) == IF starts_with(s, "_") THEN SubSeq(s, 2, Len(s)) ELSE s

strip_argument(arg) == [arg EXCEPT !.ty = strip_underscore(@)]

\* mutant: the method's and the arguments' own names are stripped as well
strip_method_and_identifiers(method) ==
    [method EXCEPT !.name = strip_underscore(@),
                   !.return_type = strip_underscore(@),
                   !.arguments = [k \in 1..Len(@) |->
                        [@[k] EXCEPT !.name = strip_underscore(@),
                                     !.ty = strip_underscore(@)]]]

\* the body of `for method in &mut class.methods`
strip_method(method) ==
    [method EXCEPT !.return_type = strip_underscore(@),
                   !.arguments = [k \in 1..Len(@) |-> strip_argument(@[k])]]

\* mutant: the name is recorded in api_underscore before it is stripped
strip_leading_underscores_records_raw_name(cls, underscore) ==
    [classes |-> [i \in 1..Len(cls) |->
                    [cls[i] EXCEPT !.name = strip_underscore(@),
                                   !.methods = [j \in 1..Len(@) |-> strip_method(@[j])]]],
     api_underscore |-> underscore \cup
                    {cls[i].name : i \in {j \in 1..Len(cls) : starts_with(cls[j].name, "_")}}]

\* Api::strip_leading_underscores: the class list and api_underscore after it
strip_leading_underscores(cls, underscore) ==
    [classes |-> [i \in 1..Len(cls) |->
                    [cls[i] EXCEPT !.name = strip_underscore(@),
                                   !.methods = [j \in 1..Len(@) |-> strip_method(@[j])]]],
     api_underscore |-> underscore \cup
                    {strip_underscore(cls[i].name) :
                        i \in {j \in 1..Len(cls) : starts_with(cls[j].name, "_")}}]

\* mutant: only the first shared segment is stripped
prefix_len_single_segment(names, first, k) ==
    LET underscore_index == find(first, "_") - 1
    IN IF underscore_index <= 0 THEN 0
       ELSE IF \A n \in names : starts_with(n, SubSeq(first, 1, underscore_index + 1))
            THEN underscore_index + 1
            ELSE 0

RECURSIVE prefix_len(_, _, _)
\* the loop of Enum::strip_common_prefix: `first` is variants[0], k the
\* length stripped from every name so far; the result is the length stripped
\* when the loop breaks
prefix_len(names, first, k) ==
    LET cur == SubSeq(first, k + 1, Len(first))
        underscore_index == find(cur, "_") - 1
    IN IF underscore_index <= 0 THEN k
       ELSE LET prefix == SubSeq(cur, 1, underscore_index + 1)
            IN IF \A n \in names : starts_with(SubSeq(n, k + 1, Len(n)), prefix)
               THEN prefix_len(names, first, k + Len(prefix))
               ELSE k

\* mutant: every stripped name is prefixed with '_'
prefixed_always(name) == "_" \o name

\* mutant: no stripped name is prefixed
prefixed_never(name) == name

\* the name a stripped variant is stored under
prefixed_if_numeric(name) ==
    IF is_numeric(Ch(name, 1)) THEN "_" \o name ELSE name

\* Enum::strip_common_prefix past the early return: the outcomes
\* [panicked, values] for a variant map. The map's iteration order decides
\* which variant is variants[0] and which of two variants that end with one
\* name is kept.
rename_variants(values) ==
    UNION {
        LET k == prefix_len(DOMAIN values, first, 0)
            rest(n) == SubSeq(n, k + 1, Len(n))
        IN IF \E n \in DOMAIN values : rest(n) = ""
           THEN {[panicked |-> TRUE, values |-> values]}
           ELSE LET keys == {prefixed_if_numeric(rest(n)) : n \in DOMAIN values}
                    range == {values[n] : n \in DOMAIN values}
                IN {[panicked |-> FALSE, values |-> f] :
                        f \in {g \in [keys -> range] :
                                \A key \in keys : \E n \in DOMAIN values :
                                    /\ prefixed_if_numeric(rest(n)) = key
                                    /\ g[key] = values[n]}}
        : first \in DOMAIN values}

\* mutant: an enum of one variant is renamed like any other
strip_common_prefix_without_early_return(values) == rename_variants(values)

\* Enum::strip_common_prefix
strip_common_prefix(values) ==
    IF Cardinality(DOMAIN values) <= 1
    THEN {[panicked |-> FALSE, values |-> values]}
    ELSE rename_variants(values)

RECURSIVE strip_enum_list(_)
\* strip_common_prefix on every enum of one class
strip_enum_list(enums) ==
    IF Len(enums) = 0 THEN {[panicked |-> FALSE, enums |-> <<>>]}
    ELSE {[panicked |-> h.panicked \/ t.panicked,
           enums |-> <<Enum(enums[1].name, h.values)>> \o t.enums] :
                h \in strip_common_prefix(enums[1].values),
                t \in strip_enum_list(Tail(enums))}

RECURSIVE strip_class_enums(_)
\* `api.classes.iter_mut().flat_map(|class| class.enums.iter_mut())
\*     .for_each(|e| e.strip_common_prefix())`
strip_class_enums(cls) ==
    IF Len(cls) = 0 THEN {[panicked |-> FALSE, classes |-> <<>>]}
    ELSE {[panicked |-> h.panicked \/ t.panicked,
           classes |-> <<[cls[1] EXCEPT !.enums = h.enums]>> \o t.classes] :
                h \in strip_enum_list(cls[1].enums),
                t \in strip_class_enums(Tail(cls))}

(***************************************************************************)
(* The manifests                                                           *)
(***************************************************************************)
MaxClasses == 2         \* a manifest holds 1..MaxClasses classes

ManifestClassNames == {"Object", "OS", "_OS", "_File"}

MethodLists ==
    {   <<>>,
        <<GodotMethod("get_os", "_OS", <<>>)>>,
        <<GodotMethod("_open", "_File",
                      <<GodotArgument("_path", "String"), GodotArgument("os", "_OS")>>)>>,
        <<GodotMethod("get", "Object", <<GodotArgument("index", "int")>>),
          GodotMethod("_set", "void", <<GodotArgument("_value", "_OS")>>)>>   }

AxisValues == [n \in {"AXIS_0", "AXIS_1"} |-> IF n = "AXIS_0" THEN 0 ELSE 1]

EnumLists == {<<>>, <<Enum("Axis", AxisValues)>>}

ManifestClasses ==
    {GodotClass(n, "", FALSE, m, e) : n \in ManifestClassNames, m \in MethodLists, e \in EnumLists}

\* class lists of pairwise distinct names
Manifests ==
    UNION {{cls \in [1..n -> ManifestClasses] :
                \A i, j \in 1..n : i # j => cls[i].name # cls[j].name} : n \in 1..MaxClasses}

QueryNames == ManifestClassNames \cup {strip_underscore(n) : n \in ManifestClassNames}

TyIdle ==
    /\ src = ""
    /\ ty = NoTy
    /\ shapes = NoShapes
    /\ ret = NoValue
    /\ stored = NoValue
    /\ pc = "idle"

ApiInit ==
    /\ raw \in Manifests
    /\ classes = raw
    /\ api_underscore = {}
    /\ apc = "raw"
    /\ query = ""
    /\ found = 0
    /\ call = NoCall
    /\ result = NoResult
    /\ TyIdle
    /\ CoreIdle

\* Api::new, after the manifest is deserialized into Api::classes
ApiNew ==
    /\ apc = "raw"
    /\ LET stripped == strip_leading_underscores(classes, api_underscore)
       IN \E o \in strip_class_enums(stripped.classes) :
            IF o.panicked
            THEN /\ apc' = "panicked"
                 /\ UNCHANGED <<classes, api_underscore>>
            ELSE /\ apc' = "loaded"
                 /\ classes' = o.classes
                 /\ api_underscore' = stripped.api_underscore
    /\ UNCHANGED <<raw, query, found, call, result>>
    /\ UNCHANGED <<tyVars, coreVars>>

\* a caller looks a class up by name
FindClass ==
    /\ apc \in {"loaded", "queried"}
    /\ \E name \in QueryNames :
        /\ query' = name
        /\ found' = find_class(classes, name)
    /\ apc' = "queried"
    /\ UNCHANGED <<raw, classes, api_underscore, call, result>>
    /\ UNCHANGED <<tyVars, coreVars>>

\* the two normalization passes of Api::new run once more, on the class list
\* of a loaded Api
NormalizeAgain ==
    /\ apc = "loaded"
    /\ LET stripped == strip_leading_underscores(classes, api_underscore)
       IN \E o \in strip_class_enums(stripped.classes) :
            IF o.panicked
            THEN /\ apc' = "panicked"
                 /\ UNCHANGED <<classes, api_underscore>>
            ELSE /\ apc' = "renormalized"
                 /\ classes' = o.classes
                 /\ api_underscore' = stripped.api_underscore
    /\ UNCHANGED <<raw, query, found, call, result>>
    /\ UNCHANGED <<tyVars, coreVars>>

ApiNext ==
    \/ ApiNew
    \/ FindClass
    \/ NormalizeAgain

SpecApi == ApiInit /\ [][ApiNext]_vars

(***************************************************************************)
(* Manifests with base classes: the inputs of class_inherits and           *)
(* base_class                                                              *)
(***************************************************************************)
MaxHierarchy == 3       \* a manifest with base classes holds 1..MaxHierarchy classes

HierarchyNames == {"Object", "Node", "_OS", "OS"}
\* base_class as a manifest spells it: "" for a root, "Missing" names no class
BaseNames == {"", "Object", "Node", "OS", "_OS", "Missing"}
AncestorNames == {"Object", "Node", "OS", "Missing"}

HierarchyManifests ==
    UNION {{cls \in [1..n -> {GodotClass(name, base, FALSE, <<>>, <<>>) :
                                name \in HierarchyNames, base \in BaseNames}] :
                \A i, j \in 1..n : i # j => cls[i].name # cls[j].name} : n \in 1..MaxHierarchy}

HierarchyInit ==
    /\ raw \in HierarchyManifests
    /\ classes = raw
    /\ api_underscore = {}
    /\ apc = "raw"
    /\ query = ""
    /\ found = 0
    /\ call = NoCall
    /\ result = NoResult
    /\ TyIdle
    /\ CoreIdle

\* a caller asks whether a class of the Api inherits a class of some name
ClassInherits ==
    /\ apc = "loaded"
    /\ \E i \in 1..Len(classes), name \in AncestorNames :
        /\ call' = Call("class_inherits", i, name)
        /\ result' = Result(class_inherits(classes, i, name, 1), 0)
    /\ apc' = "answered"
    /\ UNCHANGED <<raw, classes, api_underscore, query, found>>
    /\ UNCHANGED <<tyVars, coreVars>>

\* a caller asks for the base class of a class of the Api
BaseClass ==
    /\ apc = "loaded"
    /\ \E i \in 1..Len(classes) :
        /\ call' = Call("base_class", i, "")
        /\ result' = base_class(classes, i)
    /\ apc' = "answered"
    /\ UNCHANGED <<raw, classes, api_underscore, query, found>>
    /\ UNCHANGED <<tyVars, coreVars>>

HierarchyNext ==
    \/ ApiNew
    \/ ClassInherits
    \/ BaseClass

SpecHierarchy == HierarchyInit /\ [][HierarchyNext]_vars

(***************************************************************************)
(* Manifests of singletons and other classes: the inputs of                *)
(* is_singleton_thread_safe                                                *)
(***************************************************************************)
SingletonNames == ThreadUnsafeSingletons \cup {"OS", "_OS", "_VisualServer", "Object"}

SingletonManifests ==
    UNION {{cls \in [1..n -> {GodotClass(name, "", singleton, <<>>, <<>>) :
                                name \in SingletonNames, singleton \in BOOLEAN}] :
                \A i, j \in 1..n : i # j => cls[i].name # cls[j].name} : n \in 1..MaxClasses}

SingletonInit ==
    /\ raw \in SingletonManifests
    /\ classes = raw
    /\ api_underscore = {}
    /\ apc = "raw"
    /\ query = ""
    /\ found = 0
    /\ call = NoCall
    /\ result = NoResult
    /\ TyIdle
    /\ CoreIdle

\* a caller asks whether a class of the Api is a thread-safe singleton
IsSingletonThreadSafe ==
    /\ apc = "loaded"
    /\ \E i \in 1..Len(classes) :
        /\ call' = Call("is_singleton_thread_safe", i, "")
        /\ result' = Result(is_singleton_thread_safe(classes[i]), 0)
    /\ apc' = "answered"
    /\ UNCHANGED <<raw, classes, api_underscore, query, found>>
    /\ UNCHANGED <<tyVars, coreVars>>

SingletonNext ==
    \/ ApiNew
    \/ IsSingletonThreadSafe

SpecSingleton == SingletonInit /\ [][SingletonNext]_vars

(***************************************************************************)
(* Manifests of one class with one enum: the inputs of                     *)
(* Enum::strip_common_prefix                                               *)
(***************************************************************************)
MaxVariants == 2        \* an enum holds 1..MaxVariants variants
MaxValue == 1           \* a variant's value is 0..MaxValue

VariantNames ==
    {"AXIS_0", "AXIS_1", "A_", "A_B", "A_B_C", "A_B_D", "X", "MODE_X", "1A", "2_B"}

EnumMaps ==
    UNION {[names -> 0..MaxValue] :
                names \in {s \in SUBSET VariantNames : Cardinality(s) \in 1..MaxVariants}}

EnumInit ==
    /\ raw \in {<<GodotClass("Object", "", FALSE, <<>>, <<Enum("Mode", values)>>)>> :
                    values \in EnumMaps}
    /\ classes = raw
    /\ api_underscore = {}
    /\ apc = "raw"
    /\ query = ""
    /\ found = 0
    /\ call = NoCall
    /\ result = NoResult
    /\ TyIdle
    /\ CoreIdle

SpecEnum == EnumInit /\ [][ApiNext]_vars

\* variant names with a doubled underscore beside the names above
DoubledUnderscoreNames == {"A_1", "A__1"}

WideEnumMaps ==
    UNION {[names -> 0..MaxValue] :
                names \in {s \in SUBSET (VariantNames \cup DoubledUnderscoreNames) :
                                Cardinality(s) \in 1..MaxVariants}}

WideEnumInit ==
    /\ raw \in {<<GodotClass("Object", "", FALSE, <<>>, <<Enum("Mode", values)>>)>> :
                    values \in WideEnumMaps}
    /\ classes = raw
    /\ api_underscore = {}
    /\ apc = "raw"
    /\ query = ""
    /\ found = 0
    /\ call = NoCall
    /\ result = NoResult
    /\ TyIdle
    /\ CoreIdle

SpecEnumWide == WideEnumInit /\ [][ApiNext]_vars

(***************************************************************************)
(* gdnative-core/src/macros.rs: godot_wrap_method_inner, the extern "C"    *)
(* function the host calls for a method of a native class                  *)
(***************************************************************************)
MaxRequired == 2        \* a wrapped method has 0..MaxRequired required parameters
MaxOptional == 1        \* and 0..MaxOptional #[opt] parameters
MaxArgs == 4            \* the host passes num_args in -1..MaxArgs

\* a godot_error! the wrapper raised; idx is the argument named, 0 if none
Error(kind, idx) == [kind |-> kind, idx |-> idx]

\* the two checks of num_args, in the order of the code
arity_error_ignores_maximum(required, optional, num_args) ==
    IF num_args < required THEN "required" ELSE "none"

arity_error(required, optional, num_args) ==
    IF num_args < required THEN "required"
    ELSE IF num_args > required + optional THEN "at most"
    ELSE "none"

\* FromVariant::from_variant of the argument at args.offset(offset): an
\* argument of the call either holds a value of the parameter's type or not
from_variant(args, offset) == IF args[offset + 1] THEN "Ok" ELSE "Err"

\* the call of the user method without catch_unwind around it
call_user_method_without_catch_unwind(user_data, user) ==
    IF user_data = "err"
    THEN [invoked |-> FALSE, ret |-> "nil", unwound |-> FALSE,
          errors |-> <<Error("method call failed", 0), Error("check documentation", 0)>>]
    ELSE IF user = "panics"
    THEN [invoked |-> TRUE, ret |-> "none", unwound |-> TRUE, errors |-> <<>>]
    ELSE [invoked |-> TRUE, ret |-> "value", unwound |-> FALSE, errors |-> <<>>]

\* catch_unwind around map_method around the user method, and the match on
\* what it gave: a panic of the user method is caught and answered by a nil
\* Variant; a failure of map_method to reach the user data is reported twice
\* and answered by a nil Variant, the user method not having run
call_user_method(user_data, user) ==
    IF user = "panics" /\ user_data = "ok"
    THEN [invoked |-> TRUE, ret |-> "nil", unwound |-> FALSE, errors |-> <<>>]
    ELSE IF user_data = "err"
    THEN [invoked |-> FALSE, ret |-> "nil", unwound |-> FALSE,
          errors |-> <<Error("method call failed", 0), Error("check documentation", 0)>>]
    ELSE [invoked |-> TRUE, ret |-> "value", unwound |-> FALSE, errors |-> <<>>]

\* the argument arrays the host may pass with num_args
ArgArrays(num_args) ==
    IF num_args <= 0 THEN {<<>>} ELSE [1..num_args -> BOOLEAN]

\* the host calls the wrapped method
WrapCall ==
    /\ wrap.pc = "idle"
    /\ \E required \in 0..MaxRequired, optional \in 0..MaxOptional,
          num_args \in -1..MaxArgs, user \in {"returns", "panics"},
          user_data \in {"ok", "err"} :
        \E args \in ArgArrays(num_args) :
            wrap' = [pc |-> "arity", required |-> required, optional |-> optional,
                     num_args |-> num_args, args |-> args, user |-> user,
                     user_data |-> user_data, offset |-> 0, param |-> 0,
                     decoded |-> <<>>, errors |-> <<>>, invoked |-> FALSE,
                     ret |-> "none", unwound |-> FALSE]
    /\ UNCHANGED <<lib, obj>>
    /\ UNCHANGED <<tyVars, apiVars>>

\* lines 534-547: the two checks of num_args
CheckArity ==
    /\ wrap.pc = "arity"
    /\ LET e == arity_error(wrap.required, wrap.optional, wrap.num_args)
       IN wrap' = IF e = "none"
                  THEN [wrap EXCEPT !.pc = "decode"]
                  ELSE [wrap EXCEPT !.pc = "returned", !.ret = "nil",
                                    !.errors = Append(@, Error(e, 0))]
    /\ UNCHANGED <<lib, obj>>
    /\ UNCHANGED <<tyVars, apiVars>>

\* the decoding of the argument at offset, shared by both kinds of parameter
decode_argument(w) ==
    IF from_variant(w.args, w.offset) = "Ok"
    THEN [w EXCEPT !.decoded = Append(@, w.offset + 1),
                   !.offset = @ + 1, !.param = @ + 1]
    ELSE [w EXCEPT !.decoded = Append(@, w.offset + 1),
                   !.errors = Append(@, Error("convert", w.offset + 1)),
                   !.ret = "nil", !.pc = "returned"]

\* lines 549-567: the next required parameter
DecodeRequired ==
    /\ wrap.pc = "decode"
    /\ wrap.param < wrap.required
    /\ wrap' = decode_argument(wrap)
    /\ UNCHANGED <<lib, obj>>
    /\ UNCHANGED <<tyVars, apiVars>>

\* lines 569-594: the next optional parameter, decoded if the host passed an
\* argument for it and defaulted if not
DecodeOptional ==
    /\ wrap.pc = "decode"
    /\ wrap.param >= wrap.required
    /\ wrap.param < wrap.required + wrap.optional
    /\ wrap' = IF wrap.offset < wrap.num_args
               THEN decode_argument(wrap)
               ELSE [wrap EXCEPT !.param = @ + 1]
    /\ UNCHANGED <<lib, obj>>
    /\ UNCHANGED <<tyVars, apiVars>>

\* lines 596-617: the user method is called and its answer returned
Invoke ==
    /\ wrap.pc = "decode"
    /\ wrap.param = wrap.required + wrap.optional
    /\ LET r == call_user_method(wrap.user_data, wrap.user)
       IN wrap' = [wrap EXCEPT !.pc = "returned", !.invoked = r.invoked,
                               !.ret = r.ret, !.unwound = r.unwound,
                               !.errors = @ \o r.errors]
    /\ UNCHANGED <<lib, obj>>
    /\ UNCHANGED <<tyVars, apiVars>>

CoreInit ==
    /\ TyIdle
    /\ ApiIdle
    /\ CoreIdle

WrapNext ==
    \/ WrapCall
    \/ CheckArity
    \/ DecodeRequired
    \/ DecodeOptional
    \/ Invoke

SpecWrap == CoreInit /\ [][WrapNext]_vars

(***************************************************************************)
(* gdnative-core/src/macros.rs: the entry points godot_gdnative_init,      *)
(* godot_nativescript_init and godot_gdnative_terminate generate, and the  *)
(* static GODOT_API they share                                             *)
(***************************************************************************)
MaxCalls == 4           \* the host calls at most MaxCalls entry points

\* what one call of an entry point did: whether its user callback ran and
\* whether GODOT_API was set at that moment, whether cleanup_internal_state
\* ran, and GODOT_API before and after the call
Entry(entry, loads, api_before, callback, api_at_callback, cleanup, api_after) ==
    [entry |-> entry, loads |-> loads, api_before |-> api_before,
     callback |-> callback, api_at_callback |-> api_at_callback,
     cleanup |-> cleanup, api_after |-> api_after]

\* godot_gdnative_init with the callback called whatever from_raw gave
gdnative_init_ignores_load_error(api, loads) ==
    Entry("gdnative_init", loads, api, TRUE, api \/ loads, FALSE, api \/ loads)

\* godot_gdnative_init: GodotApi::from_raw of the host's api_struct gives Err
\* (the error is reported and the function returns) or Ok (GODOT_API is set,
\* then the callback is called)
gdnative_init(api, loads) ==
    IF ~loads
    THEN Entry("gdnative_init", loads, api, FALSE, FALSE, FALSE, api)
    ELSE Entry("gdnative_init", loads, api, TRUE, TRUE, FALSE, TRUE)

\* godot_nativescript_init: returns at once if GODOT_API is None
nativescript_init(api) ==
    IF ~api
    THEN Entry("nativescript_init", FALSE, api, FALSE, FALSE, FALSE, api)
    ELSE Entry("nativescript_init", FALSE, api, TRUE, api, FALSE, api)

\* godot_gdnative_terminate: returns at once if GODOT_API is None; if not,
\* the callback is called and then cleanup_internal_state, after which
\* GODOT_API is as cleanup_internal_state left it
terminate(api, cleaned) ==
    IF ~api
    THEN Entry("terminate", FALSE, api, FALSE, FALSE, FALSE, api)
    ELSE Entry("terminate", FALSE, api, TRUE, api, TRUE, cleaned)

\* the host loads the library: GODOT_API is None
LibraryLoad ==
    /\ lib.pc = "idle"
    /\ lib' = [pc |-> "loaded", api |-> FALSE, log |-> <<>>]
    /\ UNCHANGED <<wrap, obj>>
    /\ UNCHANGED <<tyVars, apiVars>>

\* the call of an entry point: the log gets what it did, GODOT_API what it left
entered(e) == [lib EXCEPT !.api = e.api_after, !.log = Append(@, e)]

GdnativeInit ==
    /\ lib.pc = "loaded"
    /\ Len(lib.log) < MaxCalls
    /\ \E loads \in BOOLEAN : lib' = entered(gdnative_init(lib.api, loads))
    /\ UNCHANGED <<wrap, obj>>
    /\ UNCHANGED <<tyVars, apiVars>>

NativescriptInit ==
    /\ lib.pc = "loaded"
    /\ Len(lib.log) < MaxCalls
    /\ lib' = entered(nativescript_init(lib.api))
    /\ UNCHANGED <<wrap, obj>>
    /\ UNCHANGED <<tyVars, apiVars>>

\* cleanup_internal_state is defined outside the sources at hand: it may
\* leave GODOT_API set or take it back to None
Terminate ==
    /\ lib.pc = "loaded"
    /\ Len(lib.log) < MaxCalls
    /\ \E cleaned \in BOOLEAN : lib' = entered(terminate(lib.api, cleaned))
    /\ UNCHANGED <<wrap, obj>>
    /\ UNCHANGED <<tyVars, apiVars>>

LibNext ==
    \/ LibraryLoad
    \/ GdnativeInit
    \/ NativescriptInit
    \/ Terminate

SpecLib == CoreInit /\ [][LibNext]_vars

(***************************************************************************)
(* core/src/class.rs: NativeRef, a counted reference to one host object    *)
(***************************************************************************)
MaxRefs == 4            \* at most MaxRefs NativeRefs are made to the object
MaxHostRefs == 1        \* the host itself holds 0..MaxHostRefs references

\* object::add_ref and object::unref on the object's reference count: unref
\* reports whether the count reached zero
add_ref(count) == count + 1

unref(count) == [count |-> count - 1, zero |-> count - 1 = 0]

\* a NativeRef: how it was made, whether it was dropped, and what its drop did
NativeRef(by) ==
    [by |-> by, state |-> "live", unref_zero |-> FALSE, destroyed |-> FALSE]

\* NativeRef::from_sys without the add_ref
from_sys_without_add_ref(o) ==
    [o EXCEPT !.refs = Append(@, NativeRef("from_sys"))]

\* NativeRef::from_sys(ptr)
from_sys(o) ==
    [o EXCEPT !.count = add_ref(@), !.refs = Append(@, NativeRef("from_sys"))]

\* NativeRef::new_ref(&self)
new_ref(o, self) ==
    [o EXCEPT !.count = add_ref(@), !.refs = Append(@, NativeRef("new_ref"))]

\* Drop::drop(&mut self): godot_object_destroy if unref says so
drop(o, self) ==
    LET u == unref(o.count)
    IN [o EXCEPT !.count = u.count,
                 !.refs[self] = [@ EXCEPT !.state = "dropped",
                                          !.unref_zero = u.zero,
                                          !.destroyed = u.zero],
                 !.destroyed = IF u.zero THEN @ + 1 ELSE @]

live(o) == {i \in 1..Len(o.refs) : o.refs[i].state = "live"}

\* the host has an object, with the references the host itself holds
ObjectCreate ==
    /\ obj.pc = "idle"
    /\ \E host \in 0..MaxHostRefs :
        obj' = [pc |-> "exists", host |-> host, count |-> host,
                refs |-> <<>>, destroyed |-> 0]
    /\ UNCHANGED <<wrap, lib>>
    /\ UNCHANGED <<tyVars, apiVars>>

\* from_sys is unsafe: its caller passes a pointer to an object that exists
FromSys ==
    /\ obj.pc = "exists"
    /\ obj.destroyed = 0
    /\ Len(obj.refs) < MaxRefs
    /\ obj' = from_sys(obj)
    /\ UNCHANGED <<wrap, lib>>
    /\ UNCHANGED <<tyVars, apiVars>>

NewRef ==
    /\ obj.pc = "exists"
    /\ Len(obj.refs) < MaxRefs
    /\ \E self \in live(obj) : obj' = new_ref(obj, self)
    /\ UNCHANGED <<wrap, lib>>
    /\ UNCHANGED <<tyVars, apiVars>>

Drop ==
    /\ obj.pc = "exists"
    /\ \E self \in live(obj) : obj' = drop(obj, self)
    /\ UNCHANGED <<wrap, lib>>
    /\ UNCHANGED <<tyVars, apiVars>>

RefNext ==
    \/ ObjectCreate
    \/ FromSys
    \/ NewRef
    \/ Drop

SpecRef == CoreInit /\ [][RefNext]_vars

(***************************************************************************)
(* Properties of the type mapper                                           *)
(***************************************************************************)
TyTags ==
    {BuiltinTypes[i][2] : i \in 1..Len(BuiltinTypes)}
        \cup {SpecialEnums[i][2] : i \in 1..Len(SpecialEnums)}
        \cup {"Enum", "Object"}

Classified == pc # "start"

Namespaced(path) == Len(path) >= 2 /\ path[1] = "crate" /\ path[2] = "generated"

\* C1: Ty::from_src is total: for every input string it returns a TypeTag
\* without failing, also for a string that starts with "enum." and holds no
\* "::", and a string matching no known case yields an Object tag.
C1_FromSrcTotal ==
    Classified =>
        /\ ty.tag \in TyTags
        /\ (src \notin KnownStrings /\ ~starts_with(src, "enum.")) => ty.tag = "Object"

\* C2: for every class name of the raw manifest that does not start with '_',
\* Ty::from_src yields the Object tag with the path
\* crate::generated::<snake_case(name)>::<name>.
C2_ClassNameIsObject ==
    (Classified /\ src \in ClassNames /\ ~starts_with(src, "_")) =>
        ty = TyObject(<<"crate", "generated", to_snake_case(src), src>>)

C2_Witness ==
    /\ pc = "classified"
    /\ src = "ARVRAnchor"
    /\ ty = TyObject(<<"crate", "generated", "arvr_anchor", "ARVRAnchor">>)

\* C3: for every enum.<Owner>::<Name> other than the four special cases,
\* Ty::from_src yields the Enum tag with the path
\* crate::generated::<snake_case(Owner)>::<CamelCase(Name)> when <Owner>
\* classifies as an Enum or Object tag, and <snake_case(Owner)>::<CamelCase(Name)>
\* when <Owner> classifies as any other tag.
C3_EnumRule ==
    \A o \in Owners, n \in EnumNames :
        (Classified /\ src = "enum." \o o \o "::" \o n
                    /\ src \notin {SpecialEnums[i][1] : i \in 1..Len(SpecialEnums)}) =>
            ty = IF from_src(o).tag \in {"Enum", "Object"}
                 THEN TyEnum(<<"crate", "generated", to_snake_case(o), to_camel_case(n)>>)
                 ELSE TyEnum(<<to_snake_case(o), to_camel_case(n)>>)

C3_Witness ==
    /\ pc = "classified"
    /\ src = "enum.Variant::ARVRMode"
    /\ ty = TyEnum(<<"variant", "ArvrMode">>)

\* C4: Ty::from_src on "enum.Error", "enum.Variant::Type",
\* "enum.Variant::Operator" and "enum.Vector3::Axis" yields the fixed tags
\* Result, VariantType, VariantOperator and Vector3Axis, never an Enum tag.
C4_SpecialEnums ==
    Classified =>
        /\ src = "enum.Error" => ty = Tag("Result")
        /\ src = "enum.Variant::Type" => ty = Tag("VariantType")
        /\ src = "enum.Variant::Operator" => ty = Tag("VariantOperator")
        /\ src = "enum.Vector3::Axis" => ty = Tag("Vector3Axis")

C4_Witness ==
    /\ pc = "classified"
    /\ src = "enum.Vector3::Axis"
    /\ ty = Tag("Vector3Axis")

\* C5 as claimed: for a class of the manifest and a name that is no class of
\* it, the enum path of the first is namespaced under `generated` and the
\* enum path of the second is not.
C5_ManifestDecidesNamespace ==
    \A c \in ClassNames, u \in UnknownNames, n \in EnumNames :
        (Classified /\ src = "enum." \o c \o "::" \o n) =>
            /\ Namespaced(ty.path)
            /\ ~Namespaced(from_src("enum." \o u \o "::" \o n).path)

\* C5 as amended: the enum paths of a class of the manifest and of a name
\* that is no class of it are both namespaced,
\* crate::generated::<snake_case(owner)>::<CamelCase(Name)>, and differ in the
\* owner's module segment alone; the path is bare only for an owner that is
\* one of the built-in type strings.
C5_BothNamespaced ==
    \A c \in ClassNames, u \in UnknownNames, n \in EnumNames :
        (Classified /\ src = "enum." \o c \o "::" \o n) =>
            LET other == from_src("enum." \o u \o "::" \o n)
            IN /\ ty.tag = "Enum" /\ other.tag = "Enum"
               /\ Namespaced(ty.path) /\ Namespaced(other.path)
               /\ Len(ty.path) = 4 /\ Len(other.path) = 4
               /\ ty.path[3] = to_snake_case(c) /\ other.path[3] = to_snake_case(u)
               /\ ty.path[4] = other.path[4]
               /\ \A b \in KnownStrings :
                    ~starts_with(b, "enum.") =>
                        ~Namespaced(from_src("enum." \o b \o "::" \o n).path)

C5_Witness ==
    /\ pc = "classified"
    /\ src = "enum.Object::SomeEnum"
    /\ ty = TyEnum(<<"crate", "generated", "object", "SomeEnum">>)
    /\ from_src("enum.UnknownThing::SomeEnum")
            = TyEnum(<<"crate", "generated", "unknown_thing", "SomeEnum">>)

C7_LooserForThreeTags ==
    (shapes["rust"] # NoShape /\ shapes["rust_arg"] # NoShape) =>
        (shapes["rust_arg"] # shapes["rust"] => ty.tag \in {"Variant", "String", "Object"})

\* C7 as amended: the argument-accepting shape differs from the stored-value
\* shape for exactly the variant, node-path, string and object tags; for
\* every other TypeTag the two are identical.
C7_LooserForFourTags ==
    (shapes["rust"] # NoShape /\ shapes["rust_arg"] # NoShape) =>
        (shapes["rust_arg"] # shapes["rust"]
            <=> ty.tag \in {"Variant", "NodePath", "String", "Object"})

C7_Witness ==
    /\ src = "NodePath"
    /\ shapes["rust"] = Shape("NodePath")
    /\ shapes["rust_arg"] = Shape("impl Into<NodePath>")

\* C8: the post-call conversion emitted for the Result and VariantOperator
\* tags fails fatally on a discriminant outside the known range and yields
\* the decoded value for one inside it; it never yields a stored value for
\* a discriminant outside the range.
C8_ValidatedDecode ==
    (pc = "converted" /\ ty.tag \in {"Result", "VariantOperator"}) =>
        IF ret.v \in 0..MaxDiscriminant
        THEN stored = Value(shapes["rust"], ret.v)
        ELSE stored = Panicked

C8_Witness ==
    /\ pc = "converted"
    /\ ty = Tag("VariantOperator")
    /\ ret.v = MaxDiscriminant + 1
    /\ stored = Panicked

(***************************************************************************)
(* Properties of the normalization                                         *)
(***************************************************************************)
Loaded == apc \in {"loaded", "queried"}

C10_TypeReferencesOnly ==
    Loaded =>
        /\ Len(classes) = Len(raw)
        /\ \A i \in 1..Len(raw) :
            /\ Len(classes[i].methods) = Len(raw[i].methods)
            /\ \A j \in 1..Len(raw[i].methods) :
                LET before == raw[i].methods[j]
                    after == classes[i].methods[j]
                IN /\ after.name = before.name
                   /\ after.return_type =
                        IF Ch(before.return_type, 1) = "_"
                        THEN SubSeq(before.return_type, 2, Len(before.return_type))
                        ELSE before.return_type
                   /\ Len(after.arguments) = Len(before.arguments)
                   /\ \A k \in 1..Len(before.arguments) :
                        /\ after.arguments[k].name = before.arguments[k].name
                        /\ after.arguments[k].ty =
                            IF Ch(before.arguments[k].ty, 1) = "_"
                            THEN SubSeq(before.arguments[k].ty, 2, Len(before.arguments[k].ty))
                            ELSE before.arguments[k].ty

C10_Witness ==
    /\ apc = "loaded"
    /\ \E i \in 1..Len(classes) :
        /\ Len(classes[i].methods) = 1
        /\ raw[i].methods[1] =
             GodotMethod("_open", "_File",
                         <<GodotArgument("_path", "String"), GodotArgument("os", "_OS")>>)
        /\ classes[i].methods[1] =
             GodotMethod("_open", "File",
                         <<GodotArgument("_path", "String"), GodotArgument("os", "OS")>>)

(***************************************************************************)
(* Properties of Enum::strip_common_prefix                                 *)
(***************************************************************************)
\* the variant map of the manifest's enum as the manifest spells it, and as
\* the Api holds it
RawValues == raw[1].enums[1].values
NewValues == classes[1].enums[1].values

\* the longest prefix that ends with '_' and that every name starts with;
\* "" when there is none
common_prefix(names) ==
    LET n0 == CHOOSE n \in names : TRUE
        shared == {p \in {SubSeq(n0, 1, i) : i \in {j \in 1..Len(n0) : Ch(n0, j) = "_"}} :
                        \A n \in names : starts_with(n, p)}
    IN IF shared = {} THEN "" ELSE CHOOSE p \in shared : \A q \in shared : Len(q) <= Len(p)

\* a name without the common prefix of its enum
without_prefix(n) ==
    SubSeq(n, Len(common_prefix(DOMAIN RawValues)) + 1, Len(n))

\* a name as a Rust identifier can spell it
legal(name) == IF is_numeric(Ch(name, 1)) THEN "_" \o name ELSE name

C13_SingleVariantUnmodified ==
    Cardinality(DOMAIN RawValues) = 1 =>
        /\ apc # "panicked"
        /\ NewValues = RawValues

C13_Witness ==
    /\ apc = "loaded"
    /\ DOMAIN RawValues = {"2_B"}
    /\ RawValues["2_B"] = 1
    /\ NewValues = RawValues

\* C14: in an enum the pass renames (two or more variants), a variant whose
\* name without the common prefix begins with a digit is stored under that
\* name prefixed with '_' and not under the bare name, and every other
\* variant is stored under its name without the common prefix, as it is;
\* {AXIS_0: 0, AXIS_1: 1} becomes {_0: 0, _1: 1}.
C14_DigitPrefixed ==
    (apc = "loaded" /\ Cardinality(DOMAIN RawValues) >= 2) =>
        /\ \A n \in DOMAIN RawValues :
            IF is_numeric(Ch(without_prefix(n), 1))
            THEN /\ ("_" \o without_prefix(n)) \in DOMAIN NewValues
                 /\ without_prefix(n) \notin DOMAIN NewValues
            ELSE without_prefix(n) \in DOMAIN NewValues
        /\ \A m \in DOMAIN NewValues : \E n \in DOMAIN RawValues :
            m \in {without_prefix(n), "_" \o without_prefix(n)}
        /\ (DOMAIN RawValues = {"AXIS_0", "AXIS_1"}) =>
            /\ DOMAIN NewValues = {"_0", "_1"}
            /\ NewValues["_0"] = RawValues["AXIS_0"]
            /\ NewValues["_1"] = RawValues["AXIS_1"]

C14_Witness ==
    /\ apc = "loaded"
    /\ DOMAIN RawValues = {"AXIS_0", "AXIS_1"}
    /\ RawValues["AXIS_0"] = 0
    /\ RawValues["AXIS_1"] = 1
    /\ DOMAIN NewValues = {"_0", "_1"}
    /\ NewValues["_0"] = 0
    /\ NewValues["_1"] = 1

\* C15: for every enum with non-empty variant names strip_common_prefix
\* completes without a fatal error and leaves no empty variant name, also
\* when one variant's name is the common prefix of the others.
C15_NeverFatal ==
    /\ apc # "panicked"
    /\ "" \notin DOMAIN NewValues

SpecNormalize == (ApiInit \/ EnumInit) /\ [][ApiNext]_vars

(***************************************************************************)
(* Properties of the class set and its hierarchy                           *)
(***************************************************************************)
unique_names(cls) == \A i, j \in 1..Len(cls) : i # j => cls[i].name # cls[j].name

\* C17: for every manifest whose raw class names are pairwise distinct, after
\* Api::new no two classes have the same name, so that find_class(name)
\* identifies at most one class.
C17_UniqueClassNames ==
    (Loaded /\ unique_names(raw)) =>
        /\ unique_names(classes)
        /\ \A name \in QueryNames :
                Cardinality({i \in 1..Len(classes) : classes[i].name = name}) <= 1

\* the class a base-class link of the class at position i resolves to; 0 when
\* it resolves to none
resolved_base(cls, i) ==
    IF i = 0 \/ cls[i].base_class = "" THEN 0
    ELSE IF \E j \in 1..Len(cls) : cls[j].name = cls[i].base_class
         THEN CHOOSE j \in 1..Len(cls) :
                /\ cls[j].name = cls[i].base_class
                /\ \A k \in 1..(j - 1) : cls[k].name # cls[i].base_class
         ELSE 0

RECURSIVE link(_, _, _)
\* the class n resolvable base links above the class at position i
link(cls, i, n) == IF n = 0 THEN i ELSE resolved_base(cls, link(cls, i, n - 1))

\* the classes on the base-class chain of the class at position i
chain(cls, i) == {link(cls, i, n) : n \in 1..Len(cls)} \ {0}

\* C18: class_inherits is transitive along the base-class chain: for every
\* chain of resolvable base links c0 -> c1 -> ... -> cn in the loaded set,
\* class_inherits(c0, name(ci)) is true for every i from 1 to n.
C18_InheritsAlongChain ==
    (/\ apc = "answered"
     /\ call.op = "class_inherits"
     /\ \E j \in chain(classes, call.self) : classes[j].name = call.name) =>
        result.kind = "true"

C18_Witness ==
    /\ apc = "answered"
    /\ call = Call("class_inherits", 1, "Object")
    /\ Len(classes) = 3
    /\ classes[1].name = "OS" /\ classes[1].base_class = "Node"
    /\ classes[2].name = "Node" /\ classes[2].base_class = "Object"
    /\ classes[3].name = "Object" /\ classes[3].base_class = ""
    /\ result.kind = "true"

\* C19: class_inherits is reflexive-excluded: in a class set with unique names
\* in which no class lies on its own base-class chain,
\* class_inherits(c, c.name) is false for every class c.
C19_NotItsOwnBase ==
    (/\ apc = "answered"
     /\ call.op = "class_inherits"
     /\ call.name = classes[call.self].name
     /\ unique_names(classes)
     /\ \A i \in 1..Len(classes) : i \notin chain(classes, i)) =>
        result.kind = "false"

C19_Witness ==
    /\ apc = "answered"
    /\ call = Call("class_inherits", 1, "Node")
    /\ Len(classes) = 3
    /\ classes[1].name = "Node" /\ classes[1].base_class = "Object"
    /\ classes[2].name = "Object" /\ classes[2].base_class = ""
    /\ classes[3].name = "OS" /\ classes[3].base_class = "Node"
    /\ result.kind = "false"

\* C20: base_class(c) returns None exactly when c.base_class is empty; when
\* it is not empty it returns the class of that name from the loaded set, and
\* it fails fatally, returning neither None nor another class, when no class
\* of the loaded set has that name.
C20_BaseClass ==
    (apc = "answered" /\ call.op = "base_class") =>
        LET c == classes[call.self]
            named == {j \in 1..Len(classes) : classes[j].name = c.base_class}
        IN /\ result.kind = "none" <=> c.base_class = ""
           /\ (c.base_class # "" /\ named # {}) =>
                /\ result.kind = "some"
                /\ result.class \in named
           /\ (c.base_class # "" /\ named = {}) => result.kind = "panic"

C20_Witness ==
    /\ apc = "answered"
    /\ call = Call("base_class", 2, "")
    /\ Len(classes) = 2
    /\ classes[1].name = "Object" /\ classes[1].base_class = ""
    /\ classes[2].name = "Node" /\ classes[2].base_class = "Missing"
    /\ result.kind = "panic"

\* a class whose base_class names no class of the loaded set
dangling(cls, i) == cls[i].base_class # "" /\ resolved_base(cls, i) = 0

\* class_inherits(i, name) has to resolve the base class of a dangling class:
\* the walk along the chain comes to one and no base_class up to there is name
walks_into_dangling(cls, i, name) ==
    \E n \in 0..Len(cls) :
        /\ link(cls, i, n) # 0
        /\ dangling(cls, link(cls, i, n))
        /\ \A k \in 0..n : cls[link(cls, i, k)].base_class # name

\* C21 (as stated): Api::new succeeds on a manifest in which a class names a
\* base class absent from the loaded set, and every later attempt that needs
\* to resolve that base class, base_class or class_inherits walking the chain
\* through it, fails fatally instead of returning a normal result.
C21_DanglingAlwaysFatal ==
    /\ apc # "panicked"
    /\ (apc = "answered" /\ call.op = "base_class" /\ dangling(classes, call.self)) =>
            result.kind = "panic"
    /\ (apc = "answered" /\ call.op = "class_inherits"
            /\ walks_into_dangling(classes, call.self, call.name)) =>
            result.kind = "panic"

\* C21 (amended): Api::new succeeds on such a manifest; base_class on the
\* class with the absent base fails fatally; class_inherits does not fail: a
\* walk that comes to the absent base class returns false.
C21_DanglingFatalInBaseClass ==
    /\ apc # "panicked"
    /\ (apc = "answered" /\ call.op = "base_class" /\ dangling(classes, call.self)) =>
            result.kind = "panic"
    /\ (apc = "answered" /\ call.op = "class_inherits"
            /\ walks_into_dangling(classes, call.self, call.name)) =>
            result.kind = "false"

C21_Witness ==
    /\ apc = "answered"
    /\ call = Call("class_inherits", 1, "Object")
    /\ Len(classes) = 3
    /\ classes[1].name = "OS" /\ classes[1].base_class = "Node"
    /\ classes[2].name = "Node" /\ classes[2].base_class = "Missing"
    /\ classes[3].name = "Object" /\ classes[3].base_class = ""
    /\ result.kind = "false"

\* no class lies on its own base-class chain
acyclic(cls) == \A i \in 1..Len(cls) : i \notin chain(cls, i)

\* C23: for every class set whose base-class relation is acyclic,
\* class_inherits(c, n) terminates for every class c and every name n, after
\* following at most as many base links as c's base-class chain is deep.
C23_InheritsTerminates ==
    (apc = "answered" /\ call.op = "class_inherits" /\ acyclic(classes)) =>
        /\ result.kind \in {"true", "false"}
        /\ links_followed(classes, call.self, call.name)
                <= Cardinality(chain(classes, call.self))

C23_Witness ==
    /\ apc = "answered"
    /\ call = Call("class_inherits", 1, "Missing")
    /\ Len(classes) = 3
    /\ classes[1].name = "OS" /\ classes[1].base_class = "Node"
    /\ classes[2].name = "Node" /\ classes[2].base_class = "Object"
    /\ classes[3].name = "Object" /\ classes[3].base_class = ""
    /\ links_followed(classes, 1, "Missing") = 2
    /\ result.kind = "false"

\* C30: if every non-empty base_class of the raw manifest names a class of the
\* manifest (a class whose name starts with '_' included), then after
\* Api::new find_class(c.base_class) succeeds for every class c with a
\* non-empty base_class.
C30_BaseClassesStillResolve ==
    (/\ apc \in {"loaded", "answered"}
     /\ \A i \in 1..Len(raw) : raw[i].base_class # "" =>
            \E j \in 1..Len(raw) : raw[j].name = raw[i].base_class) =>
        \A i \in 1..Len(classes) :
            classes[i].base_class # "" => find_class(classes, classes[i].base_class) # 0

\* C22: is_singleton_thread_safe returns false for a singleton named
\* VisualServer, PhysicsServer, Physics3DServer or Physics2DServer, returns
\* true for every other singleton, and fails with a precondition violation
\* for every class that is not a singleton, one of those four names included.
C22_SingletonThreadSafe ==
    (apc = "answered" /\ call.op = "is_singleton_thread_safe") =>
        LET c == classes[call.self]
        IN /\ (c.singleton /\ c.name \in {"VisualServer", "PhysicsServer",
                                           "Physics3DServer", "Physics2DServer"}) =>
                    result.kind = "false"
           /\ (c.singleton /\ c.name \notin {"VisualServer", "PhysicsServer",
                                              "Physics3DServer", "Physics2DServer"}) =>
                    result.kind = "true"
           /\ ~c.singleton => result.kind = "panic"

C22_Witness ==
    /\ apc = "answered"
    /\ call = Call("is_singleton_thread_safe", 2, "")
    /\ Len(classes) = 2
    /\ classes[1].name = "OS" /\ classes[1].singleton
    /\ classes[2].name = "PhysicsServer" /\ ~classes[2].singleton
    /\ result.kind = "panic"

\* the variants of a map that have the value v
variants_of(values, v) == {n \in DOMAIN values : values[n] = v}

\* C28: strip_common_prefix preserves the number of variants and the multiset
\* of integer values of every enum: no two distinct variants are merged into
\* one map entry by prefix removal or by the '_' added before a leading digit.
C28_NoVariantsMerged ==
    apc = "loaded" =>
        /\ Cardinality(DOMAIN NewValues) = Cardinality(DOMAIN RawValues)
        /\ \A v \in 0..MaxValue :
            Cardinality(variants_of(NewValues, v)) = Cardinality(variants_of(RawValues, v))

\* C29: the result of strip_common_prefix is independent of the iteration
\* order of the variant map: whichever variant is examined first, the same
\* length of prefix is stripped, and every order of the map gives the one
\* variant map the load produced.
C29_OrderIndependent ==
    apc = "loaded" =>
        /\ \A first, other \in DOMAIN RawValues :
            prefix_len(DOMAIN RawValues, first, 0) = prefix_len(DOMAIN RawValues, other, 0)
        /\ \A o \in strip_common_prefix(RawValues) : o.values = NewValues

(***************************************************************************)
(* Properties of the wrapped method call                                   *)
(***************************************************************************)
arity_holds ==
    /\ wrap.required <= wrap.num_args
    /\ wrap.num_args <= wrap.required + wrap.optional

all_decode == \A i \in 1..wrap.num_args : wrap.args[i]

\* the 1-based position of the first argument that does not decode
first_failure ==
    CHOOSE i \in 1..wrap.num_args :
        ~wrap.args[i] /\ \A j \in 1..(i - 1) : wrap.args[j]

\* C24: in a call through a wrapped method the arity check comes first, then
\* the arguments are decoded in position order, then the user method is
\* invoked: it is invoked only if required <= num_args <= required + optional
\* and every supplied argument decodes; on an arity error, or on the first
\* argument that does not decode (the error naming its 1-based position),
\* the wrapper returns a nil Variant, having decoded no later argument and
\* not having invoked the user method.
C24_ArityThenDecodeThenInvoke ==
    wrap.pc # "idle" =>
        /\ \A k \in 1..Len(wrap.decoded) : wrap.decoded[k] = k
        /\ Len(wrap.decoded) > 0 => arity_holds
        /\ wrap.invoked =>
            /\ arity_holds
            /\ all_decode
            /\ Len(wrap.decoded) = wrap.num_args
        /\ (wrap.pc = "returned" /\ ~arity_holds) =>
            /\ wrap.ret = "nil"
            /\ wrap.decoded = <<>>
            /\ ~wrap.invoked
            /\ Len(wrap.errors) = 1
            /\ wrap.errors[1].kind \in {"required", "at most"}
        /\ (wrap.pc = "returned" /\ arity_holds /\ ~all_decode) =>
            /\ wrap.ret = "nil"
            /\ Len(wrap.decoded) = first_failure
            /\ ~wrap.invoked
            /\ wrap.errors = <<Error("convert", first_failure)>>

C24_Witness ==
    /\ wrap.pc = "returned"
    /\ wrap.required = 2 /\ wrap.optional = 1 /\ wrap.num_args = 3
    /\ wrap.args = <<TRUE, FALSE, TRUE>>
    /\ wrap.decoded = <<1, 2>>
    /\ wrap.errors = <<Error("convert", 2)>>
    /\ wrap.ret = "nil"
    /\ ~wrap.invoked

\* C25: a panic of the user method inside a wrapped method call never
\* unwinds into the host: the wrapper returns, and what it returns is a nil
\* Variant.
C25_PanicBecomesNil ==
    wrap.pc # "idle" =>
        /\ ~wrap.unwound
        /\ (wrap.pc = "returned" /\ wrap.invoked /\ wrap.user = "panics") =>
                wrap.ret = "nil"

C25_Witness ==
    /\ wrap.pc = "returned"
    /\ wrap.invoked
    /\ wrap.user = "panics"
    /\ wrap.num_args = 2 /\ wrap.decoded = <<1, 2>>
    /\ wrap.ret = "nil"
    /\ ~wrap.unwound

(***************************************************************************)
(* Properties of the entry points                                          *)
(***************************************************************************)
\* C26: whatever entry points the host calls and in whatever order, every
\* user callback that ran ran with GODOT_API set: gdnative-init sets
\* GODOT_API before it calls its callback and, when the host's API struct
\* does not load, returns with GODOT_API as it was and no callback called;
\* nativescript-init and terminate called with GODOT_API unset return with no
\* callback called and no cleanup done.
C26_NoCallbackWithoutApi ==
    lib.pc # "idle" =>
        \A k \in 1..Len(lib.log) :
            LET e == lib.log[k]
            IN /\ e.api_before = (IF k = 1 THEN FALSE ELSE lib.log[k - 1].api_after)
               /\ e.callback => e.api_at_callback
               /\ (e.entry = "gdnative_init" /\ e.loads) =>
                    e.callback /\ e.api_after
               /\ (e.entry = "gdnative_init" /\ ~e.loads) =>
                    ~e.callback /\ e.api_after = e.api_before
               /\ (e.entry \in {"nativescript_init", "terminate"} /\ ~e.api_before) =>
                    ~e.callback /\ ~e.cleanup /\ ~e.api_after

C26_Witness ==
    /\ lib.pc = "loaded"
    /\ Len(lib.log) = 4
    /\ lib.log[1] = gdnative_init(FALSE, FALSE)
    /\ lib.log[2] = nativescript_init(FALSE)
    /\ ~lib.log[2].callback
    /\ lib.log[3] = terminate(FALSE, FALSE)
    /\ ~lib.log[3].callback /\ ~lib.log[3].cleanup
    /\ lib.log[4] = gdnative_init(FALSE, TRUE)
    /\ lib.log[4].callback /\ lib.log[4].api_at_callback
    /\ lib.api

(***************************************************************************)
(* Properties of NativeRef                                                 *)
(***************************************************************************)
\* C27: over any sequence of from_sys, new_ref and drop on one object, the
\* object's count is the host's references plus one for each live NativeRef;
\* a drop destroys the object exactly if its unref reported that the count
\* reached zero; the object is not destroyed while a NativeRef to it is live,
\* and it is not destroyed twice.
C27_OneReferenceEach ==
    obj.pc # "idle" =>
        /\ obj.count = obj.host + Cardinality(live(obj))
        /\ \A i \in 1..Len(obj.refs) :
            /\ obj.refs[i].destroyed = obj.refs[i].unref_zero
            /\ obj.refs[i].state = "live" => ~obj.refs[i].destroyed
        /\ obj.destroyed = Cardinality({i \in 1..Len(obj.refs) : obj.refs[i].destroyed})
        /\ obj.destroyed > 0 => live(obj) = {}
        /\ obj.destroyed <= 1

C27_Witness ==
    /\ obj.pc = "exists"
    /\ obj.host = 0
    /\ Len(obj.refs) = 3
    /\ obj.refs[1].by = "from_sys" /\ obj.refs[2].by = "new_ref"
    /\ obj.refs[3].by = "from_sys"
    /\ live(obj) = {}
    /\ ~obj.refs[1].destroyed /\ ~obj.refs[3].destroyed
    /\ obj.refs[2].unref_zero /\ obj.refs[2].destroyed
    /\ obj.destroyed = 1

====
